---- MODULE Spec2Model ----
(***************************************************************************)
(* Verification model of the TC001 thermal trail camera (src/main.py,     *)
(* src/webapp.py): blob merge resolver, tracker and the recording state   *)
(* machine of main().                                                      *)
(*                                                                         *)
(* Geometry.  A bounding box is the tuple <<x, y, w, h>> of the source.    *)
(* The source keeps centroids as floats x + w/2, y + h/2.  Here the        *)
(* fields cx, cy hold the centroid in HALF PIXELS (2x + w, 2y + h), so     *)
(* that every comparison of the source is an exact integer comparison:    *)
(*   sqrt(dx^2 + dy^2) < SPLIT_DISTANCE_PX   <=>  DX^2 + DY^2 < (2*SPLIT)^2*)
(*   dx^2 + dy^2 < TRACK_MAX_DIST            <=>  DX^2 + DY^2 < 4*TRACK..  *)
(* with DX = 2dx, DY = 2dy.                                                *)
(***************************************************************************)
EXTENDS Integers, Sequences, FiniteSets, TLC

\* ------------------------------------------------------------------------
\* Program constants (src/main.py, CONFIGURABLE PARAMETERS)
\* ------------------------------------------------------------------------
CAMERA_FPS == 25
SPLIT_DISTANCE_PX == 20
PRE_ROLL_SEC == 10
POST_ROLL_SEC == 10
PHOTO_INTERVAL_SEC == 20
\* a forget window longer than the post-roll (faulty variant)
TrackForgetLonger == POST_ROLL_SEC + 5

TRACK_FORGET_SEC == POST_ROLL_SEC
TRACK_MAX_DIST == 40 * 40

\* Python's None; a record, so that it compares with the records it stands in for
None == [none |-> TRUE]

\* ------------------------------------------------------------------------
\* Bounds of the model
\* ------------------------------------------------------------------------
\* longest detection list handed to merge_detections in MergeSpec
MaxDets == 3

\* number of update_tracks calls TrackSpec runs
MaxCalls == 4
\* the clock (time.time(), in seconds) when the pipeline starts; stands for
\* the epoch time, which exceeds every interval of the program
StartTime == 100

\* number of iterations of the main loop Spec runs
MaxIter == 4
\* number of events of the environment Spec lets happen: a failed read or
\* decode, a sink that does not open, a failed status or photo write, a
\* reset request of the dashboard, a stop request (a failed removal of the
\* marker is not counted: it needs the reset request before it)
MaxEnvEvents == 1

\* number of write_status calls StatusSpec runs
MaxWrites == 3

\* number of reset requests the dashboard makes in ResetSpec
MaxRequests == 2

\* width and height in pixels of the thermal planes of DetectSpec (the
\* camera's are WIDTH x HEIGHT = 256 x 192)
DetW == 16
DetH == 8

\* number of consecutive detect_hot_objects calls DetectSpec runs
MaxSegCalls == 2

\* number of leading iterations of LiveSpec in which a frame may show an
\* object; every later frame shows none
LiveDetIters == 1

\* seconds by which the clock advances between two reads of time.time()
TimeSteps == {1, 10}

\* Boxes the detection lists of MergeSpec are drawn from.
\*   BoxA, BoxB : centroids 12 px apart, boxes disjoint
\*   BoxB, BoxE : centroids 18 px apart, boxes disjoint
\*   BoxA, BoxE : centroids 30 px apart, boxes disjoint
\*   BoxC       : large box touching BoxA at the corner (100,100)
\*   BoxD       : isolated
BoxA == <<100, 100, 6, 6>>
BoxB == <<112, 100, 6, 6>>
BoxC == <<0, 0, 100, 100>>
BoxD == <<200, 150, 10, 10>>
BoxE == <<130, 100, 6, 6>>
MergeBoxes == {BoxA, BoxB, BoxC, BoxD, BoxE}

\* Boxes the frames of TrackSpec are drawn from.
\*   BoxP, BoxQ : centroids 30 px apart (not merged, within TRACK_MAX_DIST)
\*   BoxP, BoxS : centroids exactly 40 px apart (squared distance = TRACK_MAX_DIST)
\*   BoxQ, BoxS : centroids 10 px apart (merged when in one frame)
\*   BoxR       : far from all
BoxP == <<10, 10, 10, 10>>
BoxQ == <<40, 10, 10, 10>>
BoxR == <<200, 100, 10, 10>>
BoxS == <<50, 10, 10, 10>>

\* raw detection lists (bounding boxes) of the frames of TrackSpec
TrackFrameBoxes == {<<>>, <<BoxP>>, <<BoxQ>>, <<BoxS>>, <<BoxP, BoxS>>, <<BoxQ, BoxS>>}

\* raw detection lists (bounding boxes) of the frames of Spec
MainFrameBoxes == {<<>>, <<BoxP>>, <<BoxR>>}

\* sys.platform of the deployed device (Raspberry Pi: not "win...")
IsWindows == FALSE

\* the codecs cv2.VideoWriter can open for a path: none, or the last two
\* candidates
OpenableSets == {{}, {"mp4v", "MJPG"}}

VARIABLES
    m_input,      \* merge_detections: the argument `detections`
    m_dets,       \* merge_detections: local `dets`
    m_changed,    \* merge_detections: local `changed`
    m_pc,         \* merge_detections: "loop" (at the while test) or "done" (returned)
    m_passes,     \* number of passes of the while loop run so far
    now,          \* main: `now`, the last value read from time.time()
    tracks,       \* main: `tracks`, the dict in insertion order, as a sequence
                  \* of [id, cx, cy, bbox, last]
    visible,      \* main: `visible`, the list update_tracks returned last
    ut_dets,      \* the `detections` argument of the last update_tracks call
    ut_tracks_in, \* the `tracks` argument of the last update_tracks call
    assigned,     \* history: every track id update_tracks has assigned so far
    iters,        \* history: number of loop iterations (update_tracks calls
                  \* in TrackSpec) run so far
    env_events,   \* history: number of events of the environment so far
    frame_no,     \* history: number of frames decoded so far; names the frame
                  \* (frame 0 is the warm-up frame read before the loop)
    reset_flag,   \* whether the file RESET_FLAG_PATH exists
    background,   \* main: `background`: [base |-> frame whose thermal plane
                  \* replaced the whole model last, upto |-> last frame that
                  \* detect_hot_objects blended in]
    prebuffer,    \* main: `prebuffer`, the deque of frames
    recording,    \* main: `recording`
    raw_out,      \* main: `raw_out`: None or the VideoWriter
    trk_out,      \* main: `trk_out`: None or the VideoWriter
    last_seen,    \* main: `last_seen`
    last_photo_time, \* main: `last_photo_time`
    events_count, \* main: `events_count`
    status,       \* content of the file STATUS_PATH: None or the JSON record
    open_writers, \* the VideoWriter objects opened and not yet released
    raw_file,     \* frames written to raw sinks, in order: [label, frame]
    trk_file,     \* frames written to annotated sinks: [label, frame, ids]
    photos,       \* snapshot photos written, in order: [frame, at, kind]
    visible_at,   \* history: `now` of the latest processed frame that had a
                  \* visible track (0: none yet)
    it,           \* what the last loop iteration did and met: its kind
                  \* ("init", "read_fail", "decode_fail", "bad_shape",
                  \* "frame") and, for a frame, the outcome fields of Locals
    running,      \* main: whether control is still inside `while True:`
    status_tmp,   \* content of the file STATUS_PATH + ".tmp": None (absent) or
                  \* the text written so far (Spec does not follow this file)
    ws,           \* write_status: its position, the call number and `data`
    rd,           \* get_status of webapp.py: its position, the open file and
                  \* the text json.load was given
    published,    \* history: the records os.replace has put at STATUS_PATH
    rs,           \* ResetSpec: the position of main() around the marker test,
                  \* and the requests made since the background was replaced
    seg           \* DetectSpec: the arguments and results of the
                  \* detect_hot_objects call under study

mergeVars == <<m_input, m_dets, m_changed, m_pc, m_passes>>
trackVars == <<now, tracks, visible, ut_dets, ut_tracks_in, assigned, iters>>
mainVars == <<env_events, frame_no, reset_flag, background, prebuffer, recording, raw_out,
              trk_out, last_seen, last_photo_time, events_count, status,
              open_writers, raw_file, trk_file, photos, visible_at, it,
              running, status_tmp, ws, rd, published, rs, seg>>
statusVars == <<status_tmp, ws, rd, published>>
sideVars == <<rs, seg>>
vars == <<mergeVars, trackVars, mainVars>>

\* ------------------------------------------------------------------------
\* Helpers
\* ------------------------------------------------------------------------
Min(a, b) == IF a < b THEN a ELSE b
Max(a, b) == IF a > b THEN a ELSE b

\* A detection as detect_hot_objects builds it (centroid in half pixels)
Det(b) == [bbox |-> b, cx |-> 2 * b[1] + b[3], cy |-> 2 * b[2] + b[4]]

\* All sequences over S of length at most n
SeqsUpTo(S, n) == UNION {[1..k -> S] : k \in 0..n}

\* ------------------------------------------------------------------------
\* MERGE CLOSE / OVERLAPPING BLOBS
\* ------------------------------------------------------------------------
RectsIntersect(b1, b2, pad) ==
    LET a1x1 == b1[1] - pad
        a1y1 == b1[2] - pad
        a1x2 == b1[1] + b1[3] + pad
        a1y2 == b1[2] + b1[4] + pad
        a2x1 == b2[1] - pad
        a2y1 == b2[2] - pad
        a2x2 == b2[1] + b2[3] + pad
        a2y2 == b2[2] + b2[4] + pad
    IN ~(a1x2 < a2x1 \/ a2x2 < a1x1 \/ a1y2 < a2y1 \/ a2y2 < a1y1)

UnionBbox(b1, b2) ==
    LET x == Min(b1[1], b2[1])
        y == Min(b1[2], b2[2])
        xe == Max(b1[1] + b1[3], b2[1] + b2[3])
        ye == Max(b1[2] + b1[4], b2[2] + b2[4])
    IN <<x, y, xe - x, ye - y>>

\* `close` of merge_detections: centroid distance of two boxes below
\* SPLIT_DISTANCE_PX (half-pixel units on both sides)
CloseBoxes(b1, b2) ==
    LET dx == (2 * b1[1] + b1[3]) - (2 * b2[1] + b2[3])
        dy == (2 * b1[2] + b1[4]) - (2 * b2[2] + b2[4])
    IN dx * dx + dy * dy < (2 * SPLIT_DISTANCE_PX) * (2 * SPLIT_DISTANCE_PX)

\* Absorbs without the overlap test (faulty variant)
AbsorbsCloseOnly(merged_bbox, b2) == CloseBoxes(merged_bbox, b2)

\* Absorbs with the overlap test padded by the split distance (faulty variant)
AbsorbsPadded(merged_bbox, b2) ==
    CloseBoxes(merged_bbox, b2) \/ RectsIntersect(merged_bbox, b2, SPLIT_DISTANCE_PX)

\* the test of the inner loop: does the accumulating box absorb b2
Absorbs(merged_bbox, b2) ==
    CloseBoxes(merged_bbox, b2) \/ RectsIntersect(merged_bbox, b2, 0)

\* inner loop `for j in range(i + 1, len(dets))`
RECURSIVE InnerScan(_, _, _, _, _)
InnerScan(dets, j, merged_bbox, used, changed) ==
    IF j > Len(dets)
    THEN [bbox |-> merged_bbox, used |-> used, changed |-> changed]
    ELSE IF j \in used
    THEN InnerScan(dets, j + 1, merged_bbox, used, changed)
    ELSE IF Absorbs(merged_bbox, dets[j].bbox)
    THEN InnerScan(dets, j + 1, UnionBbox(merged_bbox, dets[j].bbox),
                   used \cup {j}, TRUE)
    ELSE InnerScan(dets, j + 1, merged_bbox, used, changed)

\* outer loop `for i in range(len(dets))`
RECURSIVE OuterScan(_, _, _, _, _)
OuterScan(dets, i, used, out, changed) ==
    IF i > Len(dets)
    THEN [out |-> out, changed |-> changed]
    ELSE IF i \in used
    THEN OuterScan(dets, i + 1, used, out, changed)
    ELSE LET r == InnerScan(dets, i + 1, dets[i].bbox, used \cup {i}, changed)
         IN OuterScan(dets, i + 1, r.used, Append(out, Det(r.bbox)), r.changed)

\* a pass that reports a merge whenever it was given a detection (faulty variant)
MergePassAlwaysChanged(dets) ==
    [out |-> OuterScan(dets, 1, {}, <<>>, FALSE).out, changed |-> Len(dets) > 0]

\* one execution of the body of `while changed:`
MergePass(dets) == OuterScan(dets, 1, {}, <<>>, FALSE)

\* merge_detections as a function: run passes until one reports no merge
RECURSIVE MergeLoop(_)
MergeLoop(dets) ==
    LET r == MergePass(dets)
    IN IF r.changed THEN MergeLoop(r.out) ELSE r.out

MergeDetections(detections) == MergeLoop(detections)

\* ------------------------------------------------------------------------
\* TRACKING
\* ------------------------------------------------------------------------
TrackIds(ts) == {ts[k].id : k \in DOMAIN ts}

\* squared centroid distance of detection d and track t, in (half pixel)^2
Dist2(d, t) ==
    LET dx == d.cx - t.cx
        dy == d.cy - t.cy
    IN dx * dx + dy * dy

\* inner loop `for i, d in enumerate(detections)`: index of the nearest
\* detection not yet used and nearer than best_d2, 0 when there is none
\* (the source counts from 0 and uses -1)
RECURSIVE BestMatchFirstFit(_, _, _, _, _, _)
BestMatchFirstFit(detections, i, t, used, best, best_d2) ==
    IF i > Len(detections)
    THEN best
    ELSE IF i \in used
    THEN BestMatchFirstFit(detections, i + 1, t, used, best, best_d2)
    ELSE IF Dist2(detections[i], t) < best_d2
    THEN i
    ELSE BestMatchFirstFit(detections, i + 1, t, used, best, best_d2)

RECURSIVE BestMatch(_, _, _, _, _, _)
BestMatch(detections, i, t, used, best, best_d2) ==
    IF i > Len(detections)
    THEN best
    ELSE IF i \in used
    THEN BestMatch(detections, i + 1, t, used, best, best_d2)
    ELSE IF Dist2(detections[i], t) < best_d2
    THEN BestMatch(detections, i + 1, t, used, i, Dist2(detections[i], t))
    ELSE BestMatch(detections, i + 1, t, used, best, best_d2)

\* loop `for tid, t in list(tracks.items())`
RECURSIVE MatchTracks(_, _, _, _, _, _)
MatchTracks(detections, ts, k, used, vis, t_now) ==
    IF k > Len(ts)
    THEN [tracks |-> ts, used |-> used, visible |-> vis]
    ELSE LET best == BestMatch(detections, 1, ts[k], used, 0, 4 * TRACK_MAX_DIST)
         IN IF best > 0
            THEN LET d == detections[best]
                     t2 == [ts[k] EXCEPT !.cx = d.cx, !.cy = d.cy,
                                         !.bbox = d.bbox, !.last = t_now]
                 IN MatchTracks(detections, [ts EXCEPT ![k] = t2], k + 1,
                                used \cup {best}, Append(vis, t2), t_now)
            ELSE MatchTracks(detections, ts, k + 1, used, vis, t_now)

\* NextId taken from the number of tracks (faulty variant)
NextIdByCount(ts) == Len(ts) + 1

\* next_id = max([0] + list(tracks.keys())) + 1
NextId(ts) ==
    LET ids == TrackIds(ts) \cup {0}
    IN (CHOOSE m \in ids : \A n \in ids : n <= m) + 1

\* loop creating a track for every detection left unused
RECURSIVE CreateTracksHidden(_, _, _, _, _, _, _)
CreateTracksHidden(detections, i, used, ts, vis, next_id, t_now) ==
    IF i > Len(detections)
    THEN [tracks |-> ts, visible |-> vis]
    ELSE IF i \in used
    THEN CreateTracksHidden(detections, i + 1, used, ts, vis, next_id, t_now)
    ELSE LET d == detections[i]
             t == [id |-> next_id, cx |-> d.cx, cy |-> d.cy,
                   bbox |-> d.bbox, last |-> t_now]
         IN CreateTracksHidden(detections, i + 1, used, Append(ts, t),
                               vis, next_id + 1, t_now)

RECURSIVE CreateTracks(_, _, _, _, _, _, _)
CreateTracks(detections, i, used, ts, vis, next_id, t_now) ==
    IF i > Len(detections)
    THEN [tracks |-> ts, visible |-> vis]
    ELSE IF i \in used
    THEN CreateTracks(detections, i + 1, used, ts, vis, next_id, t_now)
    ELSE LET d == detections[i]
             t == [id |-> next_id, cx |-> d.cx, cy |-> d.cy,
                   bbox |-> d.bbox, last |-> t_now]
         IN CreateTracks(detections, i + 1, used, Append(ts, t),
                         Append(vis, t), next_id + 1, t_now)

\* Forgotten with >= for > (faulty variant)
ForgottenAtWindow(t, t_now) == t_now - t.last >= TRACK_FORGET_SEC

\* does the final loop of update_tracks delete track t
Forgotten(t, t_now) == t_now - t.last > TRACK_FORGET_SEC

ExpireTracks(ts, t_now) == SelectSeq(ts, LAMBDA t : ~Forgotten(t, t_now))

UpdateTracks(detections, ts, t_now) ==
    LET m == MatchTracks(detections, ts, 1, {}, <<>>, t_now)
        c == CreateTracks(detections, 1, m.used, m.tracks, m.visible,
                          NextId(ts), t_now)
    IN [tracks |-> ExpireTracks(c.tracks, t_now), visible |-> c.visible]

\* ------------------------------------------------------------------------
\* VIDEO WRITER + HELPERS
\* ------------------------------------------------------------------------
CodecsToTry(is_windows) ==
    IF is_windows
    THEN <<"mp4v", "XVID", "MJPG">>
    ELSE <<"avc1", "H264", "mp4v", "MJPG">>

ExtOf(fourcc_str) == IF fourcc_str \in {"mp4v", "avc1", "H264"} THEN "mp4" ELSE "avi"

\* loop `for fourcc_str in codecs_to_try`; `opens` is the set of codecs for
\* which cv2.VideoWriter(...).isOpened() is true
RECURSIVE TryCodecs(_, _, _, _)
TryCodecs(path_base, codecs, k, opens) ==
    IF k > Len(codecs)
    THEN None
    ELSE IF codecs[k] \in opens
    THEN [base |-> path_base, fourcc |-> codecs[k], ext |-> ExtOf(codecs[k])]
    ELSE TryCodecs(path_base, codecs, k + 1, opens)

MakeWriter(path_base, opens, is_windows) ==
    TryCodecs(path_base, CodecsToTry(is_windows), 1, opens)

\* write_status: the new content of STATUS_PATH; `ok` is false when the
\* open/dump/replace raises, which the except clause swallows
WriteStatus(old, rec, events, ts, ok) ==
    IF ok THEN [recording |-> rec, events |-> events, ts |-> ts] ELSE old

\* a deque that never discards (faulty variant)
DequeAppendUnbounded(q, x, maxlen) == Append(q, x)

\* deque(maxlen=...).append
DequeAppend(q, x, maxlen) ==
    IF Len(q) >= maxlen THEN Append(Tail(q), x) ELSE Append(q, x)

PrebufferMaxlen == PRE_ROLL_SEC * CAMERA_FPS

\* ------------------------------------------------------------------------
\* MAIN
\* ------------------------------------------------------------------------
\* The locals of main() that the recording blocks read and write, as one
\* record, with three fields noting what the iteration did:
\*   start  : "none", "ok" (session started) or "failed" (a sink did not open)
\*   stop   : whether the session was stopped
\*   status_write : "none", "ok" or "failed" (write_status called)
\*   photo_failed : whether a cv2.imwrite of a snapshot photo wrote no file
Locals ==
    [recording |-> recording, raw_out |-> raw_out, trk_out |-> trk_out,
     last_seen |-> last_seen, last_photo_time |-> last_photo_time,
     events_count |-> events_count, prebuffer |-> prebuffer, status |-> status,
     open_writers |-> open_writers, raw_file |-> raw_file,
     trk_file |-> trk_file, photos |-> photos,
     start |-> "none", stop |-> FALSE, status_write |-> "none",
     raw_opened |-> FALSE, trk_opened |-> FALSE, photo_failed |-> FALSE]

\* nothing released (faulty variant)
ReleaseNothing(writers, ro, to) == writers

\* `if raw_out: raw_out.release()` and `if trk_out: trk_out.release()`
ReleaseOpened(writers, ro, to) == writers \ ({ro, to} \ {None})

\* the pre-roll buffer written newest frame first (faulty variant)
FlushedNewestFirst(q, w) ==
    [k \in DOMAIN q |-> [sink |-> w.base, frame |-> q[Len(q) + 1 - k], ids |-> <<>>]]

\* the frames of the pre-roll buffer as written to a sink
Flushed(q, w) == [k \in DOMAIN q |-> [sink |-> w.base, frame |-> q[k], ids |-> <<>>]]

\* the counter left as it is (faulty variant)
NextEventsCountStuck(n) == n

\* the counter raised by two (faulty variant)
NextEventsCountTwice(n) == n + 2

\* events_count += 1
NextEventsCount(n) == n + 1

\* OpenFailed without `raw_out = trk_out = None` (faulty variant)
OpenFailedKeepsHandles(s, ro, to, opened) ==
    [s EXCEPT !.recording = FALSE,
              !.open_writers = ReleaseOpened(opened, ro, to),
              !.raw_out = ro,
              !.trk_out = to,
              !.start = "failed",
              !.raw_opened = (ro # None),
              !.trk_opened = (to # None)]

\* the branch `if raw_out is None or trk_out is None:`; ro and to are what
\* the two make_writer calls returned, opened the writers open after them
OpenFailed(s, ro, to, opened) ==
    [s EXCEPT !.recording = FALSE,
              !.open_writers = ReleaseOpened(opened, ro, to),
              !.raw_out = None,
              !.trk_out = None,
              !.start = "failed",
              !.raw_opened = (ro # None),
              !.trk_opened = (to # None)]

\* SessionStarted giving the session up when write_status fails (faulty variant)
SessionStartedNeedsStatus(s, ro, to, opened, t, status_ok) ==
    [s EXCEPT !.raw_out = IF status_ok THEN ro ELSE None,
              !.trk_out = IF status_ok THEN to ELSE None,
              !.open_writers = IF status_ok THEN opened ELSE opened \ {ro, to},
              !.raw_file = s.raw_file \o Flushed(s.prebuffer, ro),
              !.trk_file = s.trk_file \o Flushed(s.prebuffer, to),
              !.recording = status_ok,
              !.last_seen = t,
              !.last_photo_time = 0,
              !.events_count = NextEventsCount(s.events_count),
              !.status = WriteStatus(s.status, TRUE,
                                     NextEventsCount(s.events_count), t, status_ok),
              !.start = "ok",
              !.raw_opened = TRUE,
              !.trk_opened = TRUE,
              !.status_write = IF status_ok THEN "ok" ELSE "failed"]

\* the else branch: flush the pre-roll buffer, enter Recording, count the
\* event and publish it
SessionStarted(s, ro, to, opened, t, status_ok) ==
    [s EXCEPT !.raw_out = ro,
              !.trk_out = to,
              !.open_writers = opened,
              !.raw_file = s.raw_file \o Flushed(s.prebuffer, ro),
              !.trk_file = s.trk_file \o Flushed(s.prebuffer, to),
              !.recording = TRUE,
              !.last_seen = t,
              !.last_photo_time = 0,
              !.events_count = NextEventsCount(s.events_count),
              !.status = WriteStatus(s.status, TRUE,
                                     NextEventsCount(s.events_count), t, status_ok),
              !.start = "ok",
              !.raw_opened = TRUE,
              !.trk_opened = TRUE,
              !.status_write = IF status_ok THEN "ok" ELSE "failed"]

\* the session a snapshot photo belongs to: the label of the open raw sink
SessionOf(s) == IF s.raw_out = None THEN None ELSE s.raw_out.base

\* cv2.imwrite(photo_path, visual_out) of a snapshot photo, its return value
\* not looked at: ok is false when OpenCV cannot write the file, and then
\* imwrite returns False and leaves no photo
WritePhoto(s, f, t, kind, ok) ==
    IF ok
    THEN [s EXCEPT !.photos = Append(s.photos, [frame |-> f, at |-> t, kind |-> kind,
                                                session |-> SessionOf(s)])]
    ELSE [s EXCEPT !.photo_failed = TRUE]

\* START RECORDING block; f is the current frame, t is `now`, vis is `visible`
StartBlock(s, f, t, vis, opens_raw, opens_trk, status_ok, start_photo_ok) ==
    IF ~(Len(vis) > 0 /\ ~s.recording)
    THEN s
    ELSE LET ro == MakeWriter(<<"videos", t>>, opens_raw, IsWindows)
             to == MakeWriter(<<"videos_tracked", t>>, opens_trk, IsWindows)
             opened == s.open_writers \cup ({ro, to} \ {None})
             s1 == IF ro = None \/ to = None
                   THEN OpenFailed(s, ro, to, opened)
                   ELSE SessionStarted(s, ro, to, opened, t, status_ok)
         IN WritePhoto(s1, f, t, "start", start_photo_ok)

\* a stop test that never holds (faulty variant)
StopDueNever(objects_present, t, seen) == FALSE

\* StopDue with >= for > (faulty variant)
StopDueAtWindow(objects_present, t, seen) ==
    (~objects_present) /\ (t - seen >= POST_ROLL_SEC)

\* the test that ends a session
StopDue(objects_present, t, seen) ==
    (~objects_present) /\ (t - seen > POST_ROLL_SEC)

\* the body of the stop test: leave Recording, release both sinks, clear
\* the pre-roll buffer and publish
SessionStopped(s, t, status_ok) ==
    [s EXCEPT !.recording = FALSE,
              !.open_writers = s.open_writers \ {s.raw_out, s.trk_out},
              !.raw_out = None,
              !.trk_out = None,
              !.prebuffer = <<>>,
              !.status = WriteStatus(s.status, FALSE, s.events_count, t, status_ok),
              !.stop = TRUE,
              !.status_write = IF status_ok THEN "ok" ELSE "failed"]

\* DURING RECORDING block
DuringBlock(s, f, t, vis, status_ok, photo_ok) ==
    IF ~s.recording
    THEN s
    ELSE LET objects_present == Len(vis) > 0
             ids == [k \in DOMAIN vis |-> vis[k].id]
             s1 == IF objects_present THEN [s EXCEPT !.last_seen = t] ELSE s
             s2 == IF objects_present /\ (t - s1.last_photo_time >= PHOTO_INTERVAL_SEC)
                   THEN [WritePhoto(s1, f, t, "periodic", photo_ok)
                            EXCEPT !.last_photo_time = t]
                   ELSE s1
             s3 == [s2 EXCEPT !.raw_file = Append(s2.raw_file,
                                  [sink |-> s2.raw_out.base, frame |-> f, ids |-> <<>>]),
                              !.trk_file = Append(s2.trk_file,
                                  [sink |-> s2.trk_out.base, frame |-> f, ids |-> ids])]
         IN IF StopDue(objects_present, t, s3.last_seen)
            THEN SessionStopped(s3, t, status_ok)
            ELSE s3

\* raw detection lists detect_hot_objects hands to merge_detections
MainFrames == {[i \in DOMAIN q |-> Det(q[i])] : q \in MainFrameBoxes}
TrackFrames == {[i \in DOMAIN q |-> Det(q[i])] : q \in TrackFrameBoxes}

\* write_status is not running
WriterIdle == [pc |-> "idle", calls |-> 0, data |-> None]

\* get_status is not running
ReaderIdle == [pc |-> "idle", live |-> FALSE, file |-> None, text |-> None]

\* main() is not followed step by step around the marker test
ResetIdle == [pc |-> "idle", pending |-> 0, requests |-> 0]

\* no detect_hot_objects call is under study
SegIdle == [pc |-> "idle"]

\* the locals of main() as assigned before the first write_status
MainLocals ==
    /\ frame_no = 0
    /\ reset_flag = FALSE
    /\ background = [base |-> 0, upto |-> 0]
    /\ prebuffer = <<>>
    /\ recording = FALSE
    /\ raw_out = None
    /\ trk_out = None
    /\ last_seen = 0
    /\ last_photo_time = 0
    /\ events_count = 0
    /\ open_writers = {}
    /\ raw_file = <<>>
    /\ trk_file = <<>>
    /\ photos = <<>>
    /\ it = [kind |-> "init"]
    /\ visible_at = 0
    /\ running = TRUE
    /\ status_tmp = None
    /\ ws = WriterIdle
    /\ rd = ReaderIdle
    /\ published = {}

\* the state of main() when the while loop is entered; status_ok tells
\* whether the initial write_status(False, 0) wrote the file
MainStart(status_ok) ==
    /\ MainLocals
    /\ status = WriteStatus(None, FALSE, 0, StartTime, status_ok)
    /\ env_events = IF status_ok THEN 0 ELSE 1
    /\ rs = ResetIdle
    /\ seg = SegIdle

TrackIdle ==
    /\ now = StartTime
    /\ tracks = <<>>
    /\ visible = <<>>
    /\ ut_dets = <<>>
    /\ ut_tracks_in = <<>>
    /\ assigned = {}
    /\ iters = 0

MergeIdle ==
    /\ m_input = <<>>
    /\ m_dets = <<>>
    /\ m_changed = FALSE
    /\ m_pc = "idle"
    /\ m_passes = 0

Init == MergeIdle /\ TrackIdle /\ \E status_ok \in BOOLEAN : MainStart(status_ok)

\* a skipped iteration that empties the pre-roll buffer (faulty variant)
SkipFrameDropsBuffer(kind, dt) ==
    /\ running
    /\ iters < MaxIter
    /\ env_events < MaxEnvEvents
    /\ iters' = iters + 1
    /\ env_events' = env_events + 1
    /\ now' = now + dt
    /\ it' = [kind |-> kind]
    /\ prebuffer' = <<>>
    /\ UNCHANGED <<tracks, visible, ut_dets, ut_tracks_in, assigned>>
    /\ UNCHANGED <<frame_no, reset_flag, background, recording, raw_out,
                   trk_out, last_seen, last_photo_time, events_count, status,
                   open_writers, raw_file, trk_file, photos, visible_at, running>>
    /\ UNCHANGED <<statusVars, sideVars, mergeVars>>

\* an iteration that ends at a `continue`: only `now` was assigned
SkipFrame(kind, dt) ==
    /\ running
    /\ iters < MaxIter
    /\ env_events < MaxEnvEvents
    /\ iters' = iters + 1
    /\ env_events' = env_events + 1
    /\ now' = now + dt
    /\ it' = [kind |-> kind]
    /\ UNCHANGED <<tracks, visible, ut_dets, ut_tracks_in, assigned>>
    /\ UNCHANGED <<frame_no, reset_flag, background, prebuffer, recording, raw_out,
                   trk_out, last_seen, last_photo_time, events_count, status,
                   open_writers, raw_file, trk_file, photos, visible_at, running>>
    /\ UNCHANGED <<statusVars, sideVars, mergeVars>>

\* cap.read() returns no frame
ReadFail == \E dt \in TimeSteps : SkipFrame("read_fail", dt)

\* decode_visual or decode_thermal_raw raises
DecodeFail == \E dt \in TimeSteps : SkipFrame("decode_fail", dt)

\* the decoded visual plane is not HEIGHT x WIDTH
BadShape == \E dt \in TimeSteps : SkipFrame("bad_shape", dt)

\* the recording blocks of the loop body, START RECORDING then DURING
\* RECORDING: t is `now`, f the frame, vis is `visible`
RecordingBlocks(t, f, vis, opens_raw, opens_trk, status_ok, start_photo_ok, photo_ok) ==
    LET s0 == [Locals EXCEPT !.prebuffer = DequeAppend(prebuffer, f, PrebufferMaxlen)]
    IN DuringBlock(StartBlock(s0, f, t, vis, opens_raw, opens_trk, status_ok,
                              start_photo_ok),
                   f, t, vis, status_ok, photo_ok)

\* NextBackground that leaves the model alone at a reset (faulty variant)
NextBackgroundNoReset(f) == [background EXCEPT !.upto = f]

\* background reset trigger, then the new_bg detect_hot_objects returns
NextBackground(f) ==
    LET bg1 == IF reset_flag THEN [base |-> f, upto |-> f] ELSE background
    IN [bg1 EXCEPT !.upto = f]

\* one iteration of `while True:` on a frame that decodes: dt is the time
\* since the last read of the clock, detections what detect_hot_objects
\* finds, max_iter the number of iterations the run is followed for
Frame(dt, detections, max_iter) ==
    /\ running
    /\ iters < max_iter
    \* a frame that replaces the background by its own thermal plane has
    \* delta = 0 everywhere, so detect_hot_objects finds nothing in it
    /\ reset_flag => detections = <<>>
    /\ \E merged \in {MergeDetections(detections)} :
       \E u \in {UpdateTracks(merged, tracks, now + dt)} :
       \E opens_raw \in OpenableSets, opens_trk \in OpenableSets,
          status_ok \in BOOLEAN, remove_ok \in BOOLEAN,
          start_photo_ok \in BOOLEAN, photo_ok \in BOOLEAN :
          \* inputs that are not read take one value
          /\ (~reset_flag) => remove_ok
          /\ ~(Len(u.visible) > 0 /\ ~recording)
                => (opens_raw = {} /\ opens_trk = {} /\ start_photo_ok)
          /\ \E s \in {RecordingBlocks(now + dt, frame_no + 1, u.visible,
                                       opens_raw, opens_trk, status_ok,
                                       start_photo_ok, photo_ok)} :
             \E faults \in {(IF s.start = "failed" THEN 1 ELSE 0)
                            + (IF s.status_write = "failed" THEN 1 ELSE 0)
                            + (IF start_photo_ok THEN 0 ELSE 1)
                            + (IF photo_ok THEN 0 ELSE 1)} :
             /\ (s.status_write = "none") => status_ok
             /\ (s.last_photo_time # now + dt) => photo_ok
             /\ env_events + faults <= MaxEnvEvents
             /\ iters' = iters + 1
             /\ env_events' = env_events + faults
             /\ now' = now + dt
             /\ frame_no' = frame_no + 1
             /\ reset_flag' = (reset_flag /\ ~remove_ok)
             /\ background' = NextBackground(frame_no + 1)
             /\ tracks' = u.tracks
             /\ visible' = u.visible
             /\ ut_dets' = merged
             /\ ut_tracks_in' = tracks
             /\ assigned' = assigned \cup TrackIds(u.visible)
             /\ prebuffer' = s.prebuffer
             /\ recording' = s.recording
             /\ raw_out' = s.raw_out
             /\ trk_out' = s.trk_out
             /\ last_seen' = s.last_seen
             /\ last_photo_time' = s.last_photo_time
             /\ events_count' = s.events_count
             /\ status' = s.status
             /\ open_writers' = s.open_writers
             /\ raw_file' = s.raw_file
             /\ trk_file' = s.trk_file
             /\ photos' = s.photos
             /\ visible_at' = IF Len(u.visible) > 0 THEN now + dt ELSE visible_at
             /\ it' = [kind |-> "frame", frame |-> frame_no + 1,
                       reset |-> reset_flag,
                       removed |-> remove_ok,
                       objects_present |-> Len(u.visible) > 0,
                       start |-> s.start, stop |-> s.stop,
                       raw_opened |-> s.raw_opened, trk_opened |-> s.trk_opened,
                       status_write |-> s.status_write,
                       photo_failed |-> s.photo_failed]
             /\ UNCHANGED <<running, statusVars, sideVars, mergeVars>>

ProcessFrame ==
    \E dt \in TimeSteps, detections \in MainFrames : Frame(dt, detections, MaxIter)

\* webapp.py, reset_background: the dashboard creates the marker file
ResetBackgroundRequest ==
    /\ env_events < MaxEnvEvents
    /\ env_events' = env_events + 1
    /\ reset_flag' = TRUE
    /\ UNCHANGED <<frame_no, background, prebuffer, recording, raw_out,
                   trk_out, last_seen, last_photo_time, events_count, status,
                   open_writers, raw_file, trk_file, photos, visible_at, it,
                   running>>
    /\ UNCHANGED <<trackVars, statusVars, sideVars, mergeVars>>

\* `Force headless behaviour`: the waitKey test that breaks out of the
\* loop is compiled out
HAS_DISPLAY == FALSE

\* the ways the loop can be asked to stop: the `q` key when there is a
\* display, and the interrupt of the process (KeyboardInterrupt), for
\* which the loop has no handler
StopRequests == {"interrupt"} \cup (IF HAS_DISPLAY THEN {"key_q"} ELSE {})

\* the loop ends on a stop request: `break` and the statements after the
\* loop, or the interrupt leaving main(); neither releases raw_out or trk_out
ExitRequested ==
    \E request \in StopRequests :
       /\ running
       /\ env_events < MaxEnvEvents
       /\ env_events' = env_events + 1
       /\ running' = FALSE
       /\ it' = [kind |-> request]
       /\ UNCHANGED <<frame_no, reset_flag, background, prebuffer, recording, raw_out,
                      trk_out, last_seen, last_photo_time, events_count, status,
                      open_writers, raw_file, trk_file, photos, visible_at>>
       /\ UNCHANGED <<trackVars, statusVars, sideVars, mergeVars>>

Next ==
    \/ ReadFail
    \/ DecodeFail
    \/ BadShape
    \/ ProcessFrame
    \/ ResetBackgroundRequest
    \/ ExitRequested

Spec == Init /\ [][Next]_vars

\* ------------------------------------------------------------------------
\* PrerollSpec: the main loop in front of an empty scene until the pre-roll
\* buffer is full, then MaxIter iterations on any frame of MainFrames
\* ------------------------------------------------------------------------
\* number of leading iterations in which nothing is detected
QuietIters == PrebufferMaxlen

PrerollFrame ==
    \E dt \in TimeSteps, detections \in MainFrames :
       /\ (iters < QuietIters) => (dt = 1 /\ detections = <<>>)
       /\ Frame(dt, detections, QuietIters + MaxIter)

PrerollSpec == Init /\ [][PrerollFrame]_vars

\* ------------------------------------------------------------------------
\* LiveSpec: the main loop on frames that keep being decoded; after the
\* first LiveDetIters iterations no frame shows an object
\* ------------------------------------------------------------------------
\* iterations followed: enough for the clock, which advances by a second or
\* more per iteration, to pass the post-roll after the last object
LiveIters == LiveDetIters + POST_ROLL_SEC + 1

LiveFrame ==
    \E dt \in TimeSteps, detections \in MainFrames :
       /\ (iters >= LiveDetIters) => detections = <<>>
       /\ Frame(dt, detections, LiveIters)

\* `while True:` goes round as long as cap.read() delivers frames
LiveSpec == Init /\ [][LiveFrame]_vars /\ WF_vars(LiveFrame)

\* ------------------------------------------------------------------------
\* StatusSpec: write_status of main.py called start after stop after start,
\* step by step, against get_status of webapp.py reading the status file
\* ------------------------------------------------------------------------
\* STATUS_PATH
StatusPath == "status.json"

\* the temp file is the status file itself (faulty variant)
TmpPathIsStatusPath == "status.json"

\* tmp_path = STATUS_PATH + ".tmp"
TmpPath == "status.json.tmp"

\* an existing file without content, as open(path, "w") leaves it
EmptyText == [text |-> ""]

\* the first n fields of the text json.dump writes for the record data
TextPrefix(data, n) ==
    CASE n = 0 -> EmptyText
      [] n = 1 -> [recording |-> data.recording]
      [] n = 2 -> [recording |-> data.recording, events |-> data.events]
      [] OTHER -> data

\* json.load accepts the text and data.get finds the three fields
Complete(text) == DOMAIN text = {"recording", "events", "ts"}

\* the content of the file at path
FileAt(path) == IF path = StatusPath THEN status ELSE status_tmp

\* the file at path gets the content text; the other file stays
WriteFile(path, text) ==
    /\ status' = IF path = StatusPath THEN text ELSE status
    /\ status_tmp' = IF path = StatusPath THEN status_tmp ELSE text

\* the arguments of call number k (from 0) of write_status: the initial
\* write_status(False, 0), then a start and a stop in turn
StatusArgs(k) ==
    [recording |-> (k % 2 = 1), events |-> (k + 1) \div 2, ts |-> StartTime + k]

\* the main loop, the tracker and the merge resolver take no step
PipelineIdle ==
    /\ UNCHANGED <<frame_no, reset_flag, background, prebuffer, recording, raw_out,
                   trk_out, last_seen, last_photo_time, events_count,
                   open_writers, raw_file, trk_file, photos, visible_at, it, running>>
    /\ UNCHANGED <<trackVars, sideVars, mergeVars>>

\* write_status builds `data` and runs open(tmp_path, "w"), which creates
\* the file or truncates it
WsOpen ==
    /\ ws.pc = "idle"
    /\ ws.calls < MaxWrites
    /\ ws' = [pc |-> "dump", calls |-> ws.calls + 1, data |-> StatusArgs(ws.calls),
              written |-> 0]
    /\ WriteFile(TmpPath, EmptyText)
    /\ UNCHANGED <<rd, published, env_events>>
    /\ PipelineIdle

\* json.dump(data, f): the text reaches the file piece by piece
WsDump ==
    /\ ws.pc = "dump"
    /\ ws.written < 3
    /\ ws' = [ws EXCEPT !.written = ws.written + 1]
    /\ WriteFile(TmpPath, TextPrefix(ws.data, ws.written + 1))
    /\ UNCHANGED <<rd, published, env_events>>
    /\ PipelineIdle

\* the end of the with block closes the file
WsClose ==
    /\ ws.pc = "dump"
    /\ ws.written = 3
    /\ ws' = [ws EXCEPT !.pc = "replace"]
    /\ UNCHANGED <<status, status_tmp, rd, published, env_events>>
    /\ PipelineIdle

\* os.replace(tmp_path, STATUS_PATH): the name STATUS_PATH now means the
\* temp file; a reader that has the old file open keeps that file
WsReplace ==
    /\ ws.pc = "replace"
    /\ ws' = [pc |-> "idle", calls |-> ws.calls, data |-> None]
    /\ status' = FileAt(TmpPath)
    /\ status_tmp' = IF TmpPath = StatusPath THEN status_tmp ELSE None
    /\ published' = published \cup {FileAt(TmpPath)}
    /\ rd' = IF rd.pc = "opened" /\ rd.live /\ TmpPath # StatusPath
             THEN [rd EXCEPT !.live = FALSE, !.file = status]
             ELSE rd
    /\ UNCHANGED env_events
    /\ PipelineIdle

\* open, json.dump or os.replace raises: `except Exception: pass`
WsRaise ==
    /\ ws.pc \in {"dump", "replace"}
    /\ env_events < MaxEnvEvents
    /\ env_events' = env_events + 1
    /\ ws' = [pc |-> "idle", calls |-> ws.calls, data |-> None]
    /\ UNCHANGED <<status, status_tmp, rd, published>>
    /\ PipelineIdle

\* get_status: open(STATUS_PATH, "r"); a missing file raises and the
\* except clause returns the defaults
RdOpen ==
    /\ rd.pc = "idle"
    /\ rd' = IF status = None
             THEN [pc |-> "done", live |-> FALSE, file |-> None, text |-> None]
             ELSE [pc |-> "opened", live |-> TRUE, file |-> None, text |-> None]
    /\ UNCHANGED <<status, status_tmp, ws, published, env_events>>
    /\ PipelineIdle

\* json.load(f): reads the open file, which is the file at STATUS_PATH
\* unless os.replace has put another file there since the open
RdLoad ==
    /\ rd.pc = "opened"
    /\ rd' = [pc |-> "done", live |-> FALSE, file |-> None,
              text |-> IF rd.live THEN status ELSE rd.file]
    /\ UNCHANGED <<status, status_tmp, ws, published, env_events>>
    /\ PipelineIdle

\* get_status returns
RdReturn ==
    /\ rd.pc = "done"
    /\ rd' = ReaderIdle
    /\ UNCHANGED <<status, status_tmp, ws, published, env_events>>
    /\ PipelineIdle

\* what get_status returns for the text it read (None: the open failed)
StatusResult(text) ==
    IF text # None /\ Complete(text)
    THEN <<text.recording, text.events>>
    ELSE <<FALSE, 0>>

StatusInit ==
    /\ MergeIdle
    /\ TrackIdle
    /\ MainLocals
    /\ status = None
    /\ env_events = 0
    /\ rs = ResetIdle
    /\ seg = SegIdle

StatusNext ==
    \/ WsOpen
    \/ WsDump
    \/ WsClose
    \/ WsReplace
    \/ WsRaise
    \/ RdOpen
    \/ RdLoad
    \/ RdReturn

StatusSpec == StatusInit /\ [][StatusNext]_vars

\* ------------------------------------------------------------------------
\* ResetSpec: the marker file RESET_FLAG_PATH between reset_background of
\* webapp.py and the main loop, one file-system call per step; the loop is
\* followed on frames that decode, and what it does after the marker test
\* is one step
\* ------------------------------------------------------------------------
\* what ResetSpec does not follow
ResetRest ==
    /\ UNCHANGED <<prebuffer, recording, raw_out, trk_out, last_seen,
                   last_photo_time, events_count, status, open_writers,
                   raw_file, trk_file, photos, visible_at, it, running, seg>>
    /\ UNCHANGED <<now, tracks, visible, ut_dets, ut_tracks_in, assigned>>
    /\ UNCHANGED <<statusVars, mergeVars>>

\* cap.read() and the decoding deliver the next frame
RsRead ==
    /\ rs.pc = "read"
    /\ iters < MaxIter
    /\ frame_no' = frame_no + 1
    /\ rs' = [rs EXCEPT !.pc = "check"]
    /\ UNCHANGED <<reset_flag, background, iters, env_events>>
    /\ ResetRest

\* `if os.path.exists(RESET_FLAG_PATH):`
RsCheck ==
    /\ rs.pc = "check"
    /\ rs' = [rs EXCEPT !.pc = IF reset_flag THEN "replace" ELSE "detect"]
    /\ UNCHANGED <<frame_no, reset_flag, background, iters, env_events>>
    /\ ResetRest

\* `background = thermal.astype(np.float32)`: every request made so far is
\* followed by this replacement
RsReplace ==
    /\ rs.pc = "replace"
    /\ background' = [base |-> frame_no, upto |-> frame_no]
    /\ rs' = [rs EXCEPT !.pc = "remove", !.pending = 0]
    /\ UNCHANGED <<frame_no, reset_flag, iters, env_events>>
    /\ ResetRest

\* `os.remove(RESET_FLAG_PATH)` deletes the file, whichever request wrote
\* it last
RsRemove ==
    /\ rs.pc = "remove"
    /\ reset_flag' = FALSE
    /\ rs' = [rs EXCEPT !.pc = "detect"]
    /\ UNCHANGED <<frame_no, background, iters, env_events>>
    /\ ResetRest

\* os.remove raises OSError, which `except OSError: pass` swallows
RsRemoveFails ==
    /\ rs.pc = "remove"
    /\ env_events < MaxEnvEvents
    /\ env_events' = env_events + 1
    /\ rs' = [rs EXCEPT !.pc = "detect"]
    /\ UNCHANGED <<frame_no, reset_flag, background, iters>>
    /\ ResetRest

\* the rest of the iteration: detect_hot_objects blends the frame into the
\* background, and control returns to the top of the loop
RsDetect ==
    /\ rs.pc = "detect"
    /\ background' = [background EXCEPT !.upto = frame_no]
    /\ iters' = iters + 1
    /\ rs' = [rs EXCEPT !.pc = "read"]
    /\ UNCHANGED <<frame_no, reset_flag, env_events>>
    /\ ResetRest

\* reset_background: `open(RESET_FLAG_PATH, "w")` creates the file or
\* truncates the one that is there, and "reset\n" is written
RbRequest ==
    /\ rs.requests < MaxRequests
    /\ reset_flag' = TRUE
    /\ rs' = [rs EXCEPT !.requests = @ + 1, !.pending = @ + 1]
    /\ UNCHANGED <<frame_no, background, iters, env_events>>
    /\ ResetRest

\* reset_background: open raises, `except Exception: pass` swallows it and
\* no marker is written
RbRequestFails ==
    /\ rs.requests < MaxRequests
    /\ env_events < MaxEnvEvents
    /\ env_events' = env_events + 1
    /\ rs' = [rs EXCEPT !.requests = @ + 1]
    /\ UNCHANGED <<frame_no, reset_flag, background, iters>>
    /\ ResetRest

ResetInit ==
    /\ MergeIdle
    /\ TrackIdle
    /\ MainLocals
    /\ status = WriteStatus(None, FALSE, 0, StartTime, TRUE)
    /\ env_events = 0
    /\ rs = [pc |-> "read", pending |-> 0, requests |-> 0]
    /\ seg = SegIdle

ResetNext ==
    \/ RsRead
    \/ RsCheck
    \/ RsReplace
    \/ RsRemove
    \/ RsRemoveFails
    \/ RsDetect
    \/ RbRequest
    \/ RbRequestFails

ResetSpec == ResetInit /\ [][ResetNext]_vars

\* ------------------------------------------------------------------------
\* DetectSpec: detect_hot_objects on small thermal planes, pixel by pixel;
\* each call receives the background the call before returned, as in
\* `detections, background = detect_hot_objects(thermal, background)`
\* ------------------------------------------------------------------------
\* int(DELTA_TEMP_C * 64) with DELTA_TEMP_C = 1.5
THERMAL_DELTA_RAW == 96

\* BG_UPDATE_ALPHA = 0.01, in hundredths
BG_UPDATE_ALPHA == 1

MIN_HOT_AREA == 30

\* `background` is a float32 array: its values are held as integers in
\* units of 1 / BgScale of a raw count, about the spacing of float32 values
\* near 1000, and a blend is cut to a whole number of units (two blends in
\* a row from whole raw counts are exact)
BgScale == 10000

\* the pixels <<x, y>> of a plane
Grid == {<<x, y>> : x \in 0..(DetW - 1), y \in 0..(DetH - 1)}

\* whether pixel p lies in the box b = <<x, y, w, h>>
InBlock(p, b) ==
    /\ b[1] <= p[1] /\ p[1] < b[1] + b[3]
    /\ b[2] <= p[2] /\ p[2] < b[2] + b[4]

\* a thermal plane: `ambient` everywhere except the block, which has v
ThermalFrame(block, v, ambient) ==
    [p \in Grid |-> IF InBlock(p, block) THEN v ELSE ambient]

\* the pixels of the plane under the 3x3 kernel centred on p
Kernel(p) ==
    {q \in {<<p[1] + dx, p[2] + dy>> : dx \in {-1, 0, 1}, dy \in {-1, 0, 1}} :
        q \in Grid}

\* cv2.erode with the 3x3 kernel: pixels beyond the border do not erode
Erode(S) == {p \in S : Kernel(p) \subseteq S}

\* cv2.dilate with the 3x3 kernel, once
Dilate(S) == {p \in Grid : \E q \in Kernel(p) : q \in S}

\* cv2.morphologyEx(mask, MORPH_OPEN, kernel, iterations=1)
MorphOpen(S) == Dilate(Erode(S))

\* `delta = thermal_raw.astype(np.int32) - background.astype(np.int32)` and
\* `hot_mask = delta > THERMAL_DELTA_RAW`; astype truncates the background
HotMask(th, bg) ==
    {p \in Grid : th[p] - (bg[p] \div BgScale) > THERMAL_DELTA_RAW}

\* a background blended on every pixel (faulty variant)
NewBackgroundEverywhere(th, bg, hot) ==
    [p \in Grid |->
        ((100 - BG_UPDATE_ALPHA) * bg[p] + BG_UPDATE_ALPHA * th[p] * BgScale)
            \div 100]

\* `new_bg = background.copy()` and the blend on `cold = ~hot_mask`
NewBackground(th, bg, hot) ==
    [p \in Grid |->
        IF p \in hot
        THEN bg[p]
        ELSE ((100 - BG_UPDATE_ALPHA) * bg[p] + BG_UPDATE_ALPHA * th[p] * BgScale)
                \div 100]

\* the 8-connected component of S that contains the pixels c
RECURSIVE Flood(_, _)
Flood(S, c) ==
    LET n == {p \in S : \E q \in Kernel(p) : q \in c}
    IN IF n = c THEN c ELSE Flood(S, n)

\* the last pixel of S in raster order
LastPixel(S) ==
    CHOOSE p \in S : \A q \in S : q[2] < p[2] \/ (q[2] = p[2] /\ q[1] <= p[1])

\* cv2.findContours(mask, RETR_EXTERNAL, ...): one outer contour for each
\* 8-connected component of the mask, given here as the component's pixels
RECURSIVE Contours(_)
Contours(S) ==
    IF S = {}
    THEN <<>>
    ELSE LET c == Flood(S, {LastPixel(S)})
         IN <<c>> \o Contours(S \ c)

\* cv2.boundingRect(c)
BoundingRect(c) ==
    LET x0 == CHOOSE x \in {p[1] : p \in c} : \A p \in c : x <= p[1]
        x1 == CHOOSE x \in {p[1] : p \in c} : \A p \in c : x >= p[1]
        y0 == CHOOSE y \in {p[2] : p \in c} : \A p \in c : y <= p[2]
        y1 == CHOOSE y \in {p[2] : p \in c} : \A p \in c : y >= p[2]
    IN <<x0, y0, x1 - x0 + 1, y1 - y0 + 1>>

\* whether the component fills its bounding rectangle
IsFilledRect(c) == \A p \in Grid : InBlock(p, BoundingRect(c)) => p \in c

\* cv2.contourArea(c): the area of the polygon through the centres of the
\* component's border pixels; for a component that fills a rectangle of
\* w x h pixels, which is what the planes of DetectSpec give, the polygon
\* has the four corner pixels as vertices
ContourArea(c) ==
    LET r == BoundingRect(c)
    IN (r[3] - 1) * (r[4] - 1)

\* the contours the loop over `contours` keeps
RECURSIVE KeepContours(_)
KeepContours(cs) ==
    IF cs = <<>>
    THEN <<>>
    ELSE IF ContourArea(Head(cs)) < MIN_HOT_AREA
         THEN KeepContours(Tail(cs))
         ELSE <<Head(cs)>> \o KeepContours(Tail(cs))

\* detect_hot_objects(thermal_raw, background)
DetectHotObjects(th, bg) ==
    LET hot == HotMask(th, bg)
        mask == Dilate(Dilate(MorphOpen(hot)))
        kept == KeepContours(Contours(mask))
    IN [detections |-> [i \in DOMAIN kept |-> Det(BoundingRect(kept[i]))],
        new_bg |-> NewBackground(th, bg, hot),
        hot_mask |-> hot,
        mask |-> mask]

\* the blocks, block values and ambient values of the thermal planes
SegBlocks ==
    {<<3, 1, 6, 5>>, <<5, 2, 6, 5>>, <<0, 0, 6, 5>>, <<4, 1, 8, 4>>,
     <<2, 3, 10, 3>>, <<0, 5, 10, 3>>, <<1, 3, 15, 2>>, <<6, 2, 3, 3>>}
SegValues == {1000 + THERMAL_DELTA_RAW, 1000 + THERMAL_DELTA_RAW + 1, 1300}
SegAmbients == {1000, 1050}

\* the backgrounds of the first call: 1000 everywhere, or 1010 on the right
\* half of the plane
SegBackground(kind) ==
    [p \in Grid |->
        IF kind = "uneven" /\ p[1] >= DetW \div 2
        THEN 1010 * BgScale
        ELSE 1000 * BgScale]

DetectInit ==
    /\ MergeIdle
    /\ TrackIdle
    /\ MainLocals
    /\ status = WriteStatus(None, FALSE, 0, StartTime, TRUE)
    /\ env_events = 0
    /\ rs = ResetIdle
    /\ \E block \in SegBlocks, v \in SegValues, ambient \in SegAmbients,
          kind \in {"uniform", "uneven"} :
          seg = [pc |-> "call", calls |-> 0, block |-> block, v |-> v,
                 ambient |-> ambient, kind |-> kind,
                 thermal |-> ThermalFrame(block, v, ambient),
                 background |-> SegBackground(kind),
                 previous |-> SegBackground(kind),
                 hot_mask |-> {}, mask |-> {}, detections |-> <<>>]

\* one call on the plane, with the background the call before returned
DetectCall ==
    /\ seg.pc = "call"
    /\ seg.calls < MaxSegCalls
    /\ \E r \in {DetectHotObjects(seg.thermal, seg.background)} :
          seg' = [seg EXCEPT !.calls = @ + 1,
                             !.previous = seg.background,
                             !.background = r.new_bg,
                             !.hot_mask = r.hot_mask,
                             !.mask = r.mask,
                             !.detections = r.detections]
    /\ UNCHANGED <<env_events, frame_no, reset_flag, background, prebuffer,
                   recording, raw_out, trk_out, last_seen, last_photo_time,
                   events_count, status, open_writers, raw_file, trk_file,
                   photos, visible_at, it, running, rs>>
    /\ UNCHANGED <<trackVars, statusVars, mergeVars>>

DetectSpec == DetectInit /\ [][DetectCall]_vars

\* ------------------------------------------------------------------------
\* TrackSpec: update_tracks called frame after frame on merged detections
\* ------------------------------------------------------------------------
UpdateTracksCall ==
    \E dt \in TimeSteps, detections \in TrackFrames :
       LET t == now + dt
           merged == MergeDetections(detections)
           u == UpdateTracks(merged, tracks, t)
       IN /\ iters < MaxCalls
          /\ iters' = iters + 1
          /\ now' = t
          /\ tracks' = u.tracks
          /\ visible' = u.visible
          /\ ut_dets' = merged
          /\ ut_tracks_in' = tracks
          /\ assigned' = assigned \cup TrackIds(u.visible)
          /\ UNCHANGED <<mainVars, mergeVars>>

TrackInit == MergeIdle /\ TrackIdle /\ MainStart(TRUE)

TrackSpec == TrackInit /\ [][UpdateTracksCall]_vars

\* ------------------------------------------------------------------------
\* MergeSpec: merge_detections applied to every bounded input list, one
\* pass of its while loop per step
\* ------------------------------------------------------------------------
MergeInputs == {[i \in DOMAIN s |-> Det(s[i])] : s \in SeqsUpTo(MergeBoxes, MaxDets)}

MergeInit ==
    /\ m_input \in MergeInputs
    /\ m_dets = m_input
    /\ m_changed = TRUE
    /\ m_pc = "loop"
    /\ m_passes = 0
    /\ TrackIdle
    /\ MainStart(TRUE)

MergePassStep ==
    /\ m_pc = "loop"
    /\ m_changed
    /\ LET r == MergePass(m_dets)
       IN /\ m_dets' = r.out
          /\ m_changed' = r.changed
    /\ m_passes' = m_passes + 1
    /\ UNCHANGED <<m_input, m_pc>>
    /\ UNCHANGED <<trackVars, mainVars>>

MergeReturn ==
    /\ m_pc = "loop"
    /\ ~m_changed
    /\ m_pc' = "done"
    /\ UNCHANGED <<m_input, m_dets, m_changed, m_passes>>
    /\ UNCHANGED <<trackVars, mainVars>>

MergeNext == MergePassStep \/ MergeReturn

MergeSpec == MergeInit /\ [][MergeNext]_vars

\* ------------------------------------------------------------------------
\* Properties of merge_detections (MergeSpec)
\* ------------------------------------------------------------------------
InputBox(i) == m_input[i].bbox

\* box outer contains box inner
Contains(outer, inner) ==
    /\ outer[1] <= inner[1]
    /\ outer[2] <= inner[2]
    /\ inner[1] + inner[3] <= outer[1] + outer[3]
    /\ inner[2] + inner[4] <= outer[2] + outer[4]

\* centroid distance of two detections below SPLIT_DISTANCE_PX, from their
\* cx, cy fields (half pixels)
CentroidsClose(d1, d2) ==
    (d1.cx - d2.cx) * (d1.cx - d2.cx) + (d1.cy - d2.cy) * (d1.cy - d2.cy)
        < 4 * SPLIT_DISTANCE_PX * SPLIT_DISTANCE_PX

\* boxes that share a point, edges and corners included
BoxesMeet(b1, b2) ==
    /\ b1[1] <= b2[1] + b2[3]
    /\ b2[1] <= b1[1] + b1[3]
    /\ b1[2] <= b2[2] + b2[4]
    /\ b2[2] <= b1[2] + b1[4]

\* no two detections of the list meet or have close centroids
Separated(dets) ==
    \A k, l \in DOMAIN dets :
        k # l => (~BoxesMeet(dets[k].bbox, dets[l].bbox)
                  /\ ~CentroidsClose(dets[k], dets[l]))

\* C8: whatever the input list, two input detections whose centroids are
\* closer than SPLIT_DISTANCE_PX are covered by one and the same output
\* detection, whose box contains the union of both input boxes.
C8_CloseInputsShareOutput ==
    m_pc = "done" =>
        \A i, j \in DOMAIN m_input :
            (i # j /\ CentroidsClose(m_input[i], m_input[j])) =>
                \E k \in DOMAIN m_dets :
                    Contains(m_dets[k].bbox, UnionBbox(InputBox(i), InputBox(j)))

\* C9: the list merge_detections returns is a fixpoint: no two of its
\* detections have boxes that meet (edge touch included) and no two have
\* centroids closer than SPLIT_DISTANCE_PX.
C9_OutputIsFixpoint == m_pc = "done" => Separated(m_dets)

\* a returned list of two or more detections, produced after a merge
C9_Witness == m_pc = "done" /\ Len(m_dets) >= 2 /\ Len(m_dets) < Len(m_input)

\* C10: an input without meeting boxes and without close centroids comes
\* back with the same number of detections, the same boxes, the same order.
C10_SeparatedInputUnchanged ==
    (m_pc = "done" /\ Separated(m_input)) =>
        /\ Len(m_dets) = Len(m_input)
        /\ \A k \in DOMAIN m_input : m_dets[k].bbox = m_input[k].bbox

\* a returned list for a separated input of three detections
C10_Witness == m_pc = "done" /\ Separated(m_input) /\ Len(m_input) >= 3

\* ------------------------------------------------------------------------
\* Properties of update_tracks (TrackSpec)
\* ------------------------------------------------------------------------
\* the track of the sequence ts with id n
TrackOf(ts, n) == CHOOSE t \in {ts[k] : k \in DOMAIN ts} : t.id = n

Elems(q) == {q[k] : k \in DOMAIN q}

\* the largest of a set of naturals, 0 for the empty set
MaxOf(S) == IF S = {} THEN 0 ELSE CHOOSE m \in S : \A n \in S : n <= m

\* the tracks the last update_tracks call created
Created == {v \in Elems(visible) : v.id \notin TrackIds(ut_tracks_in)}

\* the tracks the last update_tracks call matched
Matched == {v \in Elems(visible) : v.id \in TrackIds(ut_tracks_in)}

\* C5: every track a call of update_tracks creates gets an id strictly
\* greater than every id assigned before in the process lifetime; ids are
\* never reused, also after tracks have expired.
C5_IdsNeverReused ==
    [][iters' = iters + 1 =>
         \A v \in Elems(visible') :
             v.id \notin TrackIds(tracks) => \A a \in assigned : v.id > a]_vars

\* C6: a matched track keeps its id and takes the centroid, the bbox and the
\* timestamp of a detection nearer than TRACK_MAX_DIST, for which no track is
\* created; a detection at squared distance >= TRACK_MAX_DIST from every
\* track gets a new track with an id above every id present at the call.
C6_MatchKeepsIdFarCreates ==
    iters >= 1 =>
        /\ \A v \in Matched :
              /\ v \in Elems(tracks)
              /\ v.last = now
              /\ \E i \in DOMAIN ut_dets :
                    /\ Dist2(ut_dets[i], TrackOf(ut_tracks_in, v.id)) < 4 * TRACK_MAX_DIST
                    /\ v.cx = ut_dets[i].cx
                    /\ v.cy = ut_dets[i].cy
                    /\ v.bbox = ut_dets[i].bbox
                    /\ \A c \in Created : c.bbox # ut_dets[i].bbox
        /\ \A i \in DOMAIN ut_dets :
              (\A t \in Elems(ut_tracks_in) : Dist2(ut_dets[i], t) >= 4 * TRACK_MAX_DIST)
                  => \E c \in Created :
                        /\ c.bbox = ut_dets[i].bbox
                        /\ c \in Elems(tracks)
                        /\ c.id > MaxOf(TrackIds(ut_tracks_in))
        /\ \A c \in Created : c.id > MaxOf(TrackIds(ut_tracks_in))
        /\ Cardinality(TrackIds(tracks)) = Len(tracks)

\* a call that matched one track and created another for a far detection
C6_Witness == iters >= 1 /\ Matched # {} /\ Created # {} /\ Len(ut_dets) = 2

\* C7: when update_tracks returns, no track is older than TRACK_FORGET_SEC
\* (= POST_ROLL_SEC), and every track that entered the call no older than
\* that is still there: an unmatched track goes on the first call whose
\* timestamp exceeds its last-seen time by more than the window, not before.
C7_ForgetWindow ==
    iters >= 1 =>
        /\ TRACK_FORGET_SEC = POST_ROLL_SEC
        /\ \A t \in Elems(tracks) : now - t.last <= TRACK_FORGET_SEC
        /\ \A t \in Elems(ut_tracks_in) :
              /\ (now - t.last <= TRACK_FORGET_SEC) => t.id \in TrackIds(tracks)
              /\ (t.id \notin TrackIds(visible) /\ now - t.last > TRACK_FORGET_SEC)
                    => t.id \notin TrackIds(tracks)

\* a call that kept a track exactly TRACK_FORGET_SEC old and dropped one older
C7_Witness ==
    /\ \E t \in Elems(ut_tracks_in) :
          now - t.last = TRACK_FORGET_SEC /\ t \in Elems(tracks)
    /\ \E t \in Elems(ut_tracks_in) :
          now - t.last > TRACK_FORGET_SEC /\ t.id \notin TrackIds(tracks)

\* ------------------------------------------------------------------------
\* Properties of the recording state machine (Spec)
\* ------------------------------------------------------------------------
\* the status file holds a record with these recording and events fields
StatusIs(st, rec, events) ==
    st # None /\ st.recording = rec /\ st.events = events

\* this step is a loop iteration that processed a decoded frame
FrameStep == iters' = iters + 1 /\ it'.kind = "frame"

\* this step processes, while Idle, a frame with a visible track
StartAttempt == FrameStep /\ ~recording /\ Len(visible') > 0

\* C1 as stated: a frame processed while Idle with a visible track and both
\* sinks opened leaves the pipeline Recording, the event counter one higher
\* and a status record recording=true with the new counter published.
C1_StartPublishes ==
    [][(StartAttempt /\ it'.raw_opened /\ it'.trk_opened) =>
          /\ recording'
          /\ events_count' = events_count + 1
          /\ StatusIs(status', TRUE, events_count')]_vars

\* C1 amended: ... and write_status(True, new counter) has run; the record
\* is in the status file unless that write failed, and then the file is as
\* it was.
C1_StartPublishesUnlessWriteFails ==
    [][(StartAttempt /\ it'.raw_opened /\ it'.trk_opened) =>
          /\ recording'
          /\ events_count' = events_count + 1
          /\ it'.status_write \in {"ok", "failed"}
          /\ it'.status_write = "ok" => StatusIs(status', TRUE, events_count')
          /\ it'.status_write = "failed" => status' = status]_vars

\* a session has just started and its status record is in the file
C1_Witness ==
    /\ it.kind = "frame"
    /\ it.start = "ok"
    /\ recording
    /\ StatusIs(status, TRUE, events_count)
    /\ events_count >= 1

\* the stay and stop conditions of a frame processed while Recording, in
\* terms of the latest processed frame that had a visible track
StaysDue == Len(visible') > 0 \/ now' - visible_at <= POST_ROLL_SEC
LeavesDue == Len(visible') = 0 /\ now' - visible_at > POST_ROLL_SEC

\* what C2 says of a frame processed while Recording, but for the status file
C2_Session ==
    /\ last_seen = visible_at
    /\ events_count' = events_count
    /\ StaysDue =>
          (recording' /\ raw_out' = raw_out /\ trk_out' = trk_out
           /\ open_writers' = open_writers /\ it'.status_write = "none"
           /\ status' = status)
    /\ LeavesDue =>
          (~recording' /\ raw_out' = None /\ trk_out' = None /\ open_writers' = {})

\* C2 as stated: while Recording the pipeline stays Recording on every frame
\* with a visible track or within POST_ROLL_SEC of the last one; on the
\* first frame without a visible track and later than that it becomes Idle,
\* releases both sinks and publishes recording=false with the event counter
\* of the session.
C2_StopPublishes ==
    [][(FrameStep /\ recording) =>
          /\ C2_Session
          /\ LeavesDue => StatusIs(status', FALSE, events_count)]_vars

\* C2 amended: ... and write_status(False, counter) has run; the record is
\* in the status file unless that write failed, and then the file is as it
\* was.
C2_StopPublishesUnlessWriteFails ==
    [][(FrameStep /\ recording) =>
          /\ C2_Session
          /\ LeavesDue =>
                /\ it'.status_write \in {"ok", "failed"}
                /\ it'.status_write = "ok" => StatusIs(status', FALSE, events_count)
                /\ it'.status_write = "failed" => status' = status]_vars

\* a session has just ended, exactly POST_ROLL_SEC + 1 after its last
\* visible track, and its status record is in the file
C2_Witness ==
    /\ it.kind = "frame"
    /\ it.stop
    /\ ~recording
    /\ now - visible_at = POST_ROLL_SEC + 1
    /\ StatusIs(status, FALSE, events_count)

\* C3: after every loop iteration both sink handles are non-null when the
\* state is Recording and both are null when it is Idle; never exactly one.
C3_SinksIffRecording ==
    /\ recording => (raw_out # None /\ trk_out # None)
    /\ ~recording => (raw_out = None /\ trk_out = None)
    /\ open_writers = {raw_out, trk_out} \ {None}

\* Idle after a start attempt in which exactly one of the two sinks opened
C3_Witness ==
    /\ it.kind = "frame"
    /\ it.start = "failed"
    /\ it.raw_opened # it.trk_opened
    /\ ~recording
    /\ raw_out = None

\* C4: a start attempt in which a make_writer call yields no writer leaves
\* the pipeline Idle, every opened sink released, both handles null, the
\* event counter and the status file untouched and no frame written to a
\* video sink, while the tracks were updated from the frame's detections.
C4_FailedStartRollsBack ==
    [][(StartAttempt /\ ~(it'.raw_opened /\ it'.trk_opened)) =>
          /\ ~recording'
          /\ raw_out' = None
          /\ trk_out' = None
          /\ open_writers' = {}
          /\ events_count' = events_count
          /\ it'.status_write = "none"
          /\ status' = status
          /\ raw_file' = raw_file
          /\ trk_file' = trk_file
          /\ Len(ut_dets') > 0
          /\ \A i \in DOMAIN ut_dets' :
                \E t \in Elems(tracks') :
                    t.bbox = ut_dets'[i].bbox /\ t.last = now']_vars

\* Idle after a start attempt in which the raw sink opened and the
\* annotated sink did not
C4_Witness ==
    /\ it.kind = "frame"
    /\ it.start = "failed"
    /\ it.raw_opened
    /\ ~it.trk_opened
    /\ ~recording
    /\ open_writers = {}
    /\ tracks # <<>>

\* the session labels of the raw sink files written so far
SessionsStarted == {raw_file[k].sink : k \in DOMAIN raw_file}

\* C13: the event counter never decreases; it changes only by exactly +1,
\* at a successful Idle->Recording transition, and not on a failed start,
\* a frame processed while Recording, a Recording->Idle transition or a
\* skipped frame; so it equals the number of sessions started.
C13_CounterCountsSessions ==
    [][/\ events_count' >= events_count
       /\ (StartAttempt /\ it'.start = "ok") => events_count' = events_count + 1
       /\ ~(StartAttempt /\ it'.start = "ok") => events_count' = events_count
       /\ events_count = Cardinality(SessionsStarted)
       /\ events_count' = Cardinality(SessionsStarted')]_vars

\* the second session of the run has started
C13_Witness ==
    /\ it.kind = "frame"
    /\ it.start = "ok"
    /\ events_count = 2
    /\ Cardinality(SessionsStarted) = 2

\* this step is a loop iteration that ended at a `continue`
SkipStep == iters' = iters + 1 /\ it'.kind \in {"read_fail", "decode_fail", "bad_shape"}

\* C15 as stated: a decoded frame that finds the reset marker replaces the
\* whole background model by its thermal plane before segmentation and
\* removes the marker; a frame that finds no marker does not replace it.
C15_ResetConsumesMarker ==
    [][FrameStep =>
          /\ reset_flag =>
                (background' = [base |-> frame_no', upto |-> frame_no'] /\ ~reset_flag')
          /\ ~reset_flag =>
                (background'.base = background.base /\ ~reset_flag')]_vars

\* C15 amended: ... and calls os.remove on the marker; the marker is gone
\* unless that call fails, and then it stays for the next decoded frame.
C15_ResetConsumesMarkerUnlessRemoveFails ==
    [][FrameStep =>
          /\ reset_flag =>
                /\ background' = [base |-> frame_no', upto |-> frame_no']
                /\ it'.removed => ~reset_flag'
                /\ ~it'.removed => reset_flag'
          /\ ~reset_flag =>
                (background'.base = background.base /\ ~reset_flag')]_vars

\* a frame has honoured a reset request and removed the marker, after
\* frames that blended into the old model
C15_Witness ==
    /\ it.kind = "frame"
    /\ it.reset
    /\ it.removed
    /\ ~reset_flag
    /\ frame_no >= 2
    /\ background = [base |-> frame_no, upto |-> frame_no]

\* C16: an iteration in which the read fails, decoding raises or the visual
\* plane has the wrong shape leaves background, tracks, pre-roll buffer,
\* recording state, sink handles, last-seen and last-photo times, event
\* counter, status file and reset marker as they were.
C16_SkipChangesNothing ==
    [][SkipStep =>
          UNCHANGED <<background, tracks, prebuffer, recording, raw_out, trk_out,
                      open_writers, last_seen, last_photo_time, events_count,
                      status, reset_flag, raw_file, trk_file, photos, running>>]_vars

\* a frame has been skipped in the middle of a recording session
C16_Witness ==
    /\ it.kind \in {"read_fail", "decode_fail", "bad_shape"}
    /\ recording
    /\ Len(prebuffer) >= 1
    /\ tracks # <<>>

\* C17: when the loop has ended on a stop request, no video sink is open.
C17_StopReleasesSinks ==
    (~running) => (open_writers = {} /\ raw_out = None /\ trk_out = None)

\* the set of codecs that open, from whether the sink opened
OpensFor(opened) == IF opened THEN {"mp4v", "MJPG"} ELSE {}

\* the locals the iteration of this step would have left had every
\* status, photo and marker-removal call of it succeeded
AllWritesOk ==
    RecordingBlocks(now', frame_no', visible', OpensFor(it'.raw_opened),
                    OpensFor(it'.trk_opened), TRUE, TRUE, TRUE)

\* this step is a processed frame in which write_status, a snapshot write
\* or the removal of the reset marker failed
WriteFailedStep ==
    /\ FrameStep
    /\ \/ it'.status_write = "failed"
       \/ it'.photo_failed
       \/ (it'.reset /\ ~it'.removed)

C19_SnapshotsSpaced ==
    /\ (it.kind = "frame" /\ photos # <<>> /\ photos[Len(photos)].frame = it.frame)
          => it.objects_present
    /\ \A k, l \in DOMAIN photos :
          (k < l /\ photos[k].session # None /\ photos[k].session = photos[l].session)
              => photos[l].at - photos[k].at >= PHOTO_INTERVAL_SEC

\* C20: a start attempt in which a sink does not open writes no snapshot
\* photo.
C20_NoSnapshotOnFailedStart ==
    [][(StartAttempt /\ it'.start = "failed") => photos' = photos]_vars

\* C14: with write_status interleaved at any point with a reader of the
\* status file, once a record has been published the file is there and
\* holds a complete published record, and every text a reader loads is a
\* complete record with the fields recording, events and ts, equal to a
\* published record: never an empty or partly written file.
C14_ReaderSeesPublishedRecord ==
    /\ published # {} =>
          (status # None /\ Complete(status) /\ status \in published)
    /\ rd.pc = "opened" => published # {}
    /\ (rd.pc = "done" /\ rd.text # None) =>
          /\ Complete(rd.text)
          /\ rd.text \in published
          /\ StatusResult(rd.text) = <<rd.text.recording, rd.text.events>>

\* a reader has loaded the initial record, which a later publication has
\* replaced, while the writer is in the middle of writing the next temp file
C14_Witness ==
    /\ rd.pc = "done"
    /\ rd.text # None
    /\ rd.text # status
    /\ rd.text.events = 0
    /\ status.recording
    /\ Cardinality(published) = 2
    /\ ws.pc = "dump"
    /\ ws.written = 1
    /\ status_tmp # None

\* the frames a sequence of sink writes holds, in write order
FramesOf(file) == [k \in DOMAIN file |-> file[k].frame]

\* the part of sequence q after its first n elements
Drop(q, n) == SubSeq(q, n + 1, Len(q))

\* C11: the pre-roll buffer never holds more than PRE_ROLL_SEC x CAMERA_FPS
\* frames; a frame appended to a full buffer removes exactly the oldest
\* frame and leaves the others in capture order; and the buffer is empty
\* right after every Recording->Idle transition.
C11_PrerollBounded ==
    [][FrameStep =>
          /\ PrebufferMaxlen = PRE_ROLL_SEC * CAMERA_FPS
          /\ Len(prebuffer') <= PrebufferMaxlen
          /\ \A k \in 1..(Len(prebuffer') - 1) : prebuffer'[k] < prebuffer'[k + 1]
          /\ it'.stop => (recording /\ ~recording' /\ prebuffer' = <<>>)
          /\ (recording /\ ~recording') => prebuffer' = <<>>
          /\ ~it'.stop =>
                prebuffer' = IF Len(prebuffer) = PrebufferMaxlen
                             THEN Append(Tail(prebuffer), frame_no')
                             ELSE Append(prebuffer, frame_no')]_vars

\* a full buffer from which the oldest frame has been evicted
C11_Witness ==
    /\ it.kind = "frame"
    /\ Len(prebuffer) = PrebufferMaxlen
    /\ prebuffer[1] = 2
    /\ prebuffer[PrebufferMaxlen] = frame_no

\* C12: on a successful Idle->Recording transition the frames the pre-roll
\* buffer holds, never more than its capacity, are written oldest first to
\* the raw and to the annotated sink, and the live frame is written to each
\* sink after all of them.
C12_FlushBeforeLive ==
    [][(StartAttempt /\ it'.start = "ok") =>
          LET n == Len(prebuffer')
          IN /\ n <= PrebufferMaxlen
             /\ n >= 1
             /\ \A k \in 1..(n - 1) : prebuffer'[k] < prebuffer'[k + 1]
             /\ FramesOf(Drop(raw_file', Len(raw_file))) = Append(prebuffer', frame_no')
             /\ FramesOf(Drop(trk_file', Len(trk_file))) = Append(prebuffer', frame_no')
             /\ \A k \in (Len(raw_file) + 1)..Len(raw_file') :
                   raw_file'[k].sink = raw_out'.base
             /\ \A k \in (Len(trk_file) + 1)..Len(trk_file') :
                   trk_file'[k].sink = trk_out'.base]_vars

\* a session started on a full pre-roll buffer: both sinks hold its
\* PrebufferMaxlen frames and the live frame
C12_Witness ==
    /\ it.kind = "frame"
    /\ it.start = "ok"
    /\ Len(prebuffer) = PrebufferMaxlen
    /\ prebuffer[1] > 1
    /\ Len(raw_file) = PrebufferMaxlen + 1
    /\ Len(trk_file) = PrebufferMaxlen + 1

\* ------------------------------------------------------------------------
\* Further properties of update_tracks (TrackSpec)
\* ------------------------------------------------------------------------
\* the detection (index into ut_dets) the k-th track of the last call
\* claimed, 0 when it claimed none
ClaimOf(k) ==
    LET hits == {i \in DOMAIN ut_dets :
                    \E v \in Matched : v.id = ut_tracks_in[k].id
                                       /\ v.bbox = ut_dets[i].bbox}
    IN IF hits = {} THEN 0 ELSE CHOOSE i \in hits : TRUE

\* the detections no track before the k-th has claimed
Unclaimed(k) == {i \in DOMAIN ut_dets : \A j \in 1..(k - 1) : ClaimOf(j) # i}

\* the unclaimed detections within TRACK_MAX_DIST of the k-th track
InRange(k) ==
    {i \in Unclaimed(k) : Dist2(ut_dets[i], ut_tracks_in[k]) < 4 * TRACK_MAX_DIST}

\* the ids of a track sequence ascend
IdsAscend(ts) == \A k, l \in DOMAIN ts : k < l => ts[k].id < ts[l].id

\* C24: in one update_tracks call the tracks are visited in ascending id
\* order; each claims at most one detection, the nearest not yet claimed
\* one whose squared distance is below TRACK_MAX_DIST; a detection is
\* claimed by one track at most, the first that selects it; and no track
\* id is twice in the visible list.
C24_GreedyOneToOne ==
    iters >= 1 =>
        /\ IdsAscend(ut_tracks_in)
        /\ IdsAscend(tracks)
        /\ \A k \in DOMAIN ut_tracks_in :
              IF InRange(k) = {}
              THEN ClaimOf(k) = 0
              ELSE /\ ClaimOf(k) \in InRange(k)
                   /\ \A i \in InRange(k) :
                         Dist2(ut_dets[ClaimOf(k)], ut_tracks_in[k])
                             <= Dist2(ut_dets[i], ut_tracks_in[k])
        /\ \A k, l \in DOMAIN ut_tracks_in :
              (k # l /\ ClaimOf(k) # 0) => ClaimOf(k) # ClaimOf(l)
        /\ Cardinality(TrackIds(visible)) = Len(visible)

\* the older of two tracks has claimed the only detection although the
\* younger one was nearer to it, and the younger one claimed nothing
C24_Witness ==
    /\ iters >= 1
    /\ Len(ut_dets) = 1
    /\ \E k, l \in DOMAIN ut_tracks_in :
          /\ k < l
          /\ ClaimOf(k) = 1
          /\ ClaimOf(l) = 0
          /\ Dist2(ut_dets[1], ut_tracks_in[l]) < Dist2(ut_dets[1], ut_tracks_in[k])

\* C27: the visible list of an update_tracks call has as many entries as
\* the call had detections, the bbox of each detection is carried by
\* exactly one visible track, and every visible track is in the returned
\* track set; so there is a visible track iff there was a detection.
C27_VisibleMatchesDetections ==
    iters >= 1 =>
        /\ Len(visible) = Len(ut_dets)
        /\ \A i \in DOMAIN ut_dets :
              Cardinality({k \in DOMAIN visible : visible[k].bbox = ut_dets[i].bbox}) = 1
        /\ \A v \in Elems(visible) : v \in Elems(tracks)
        /\ (Len(visible) > 0) <=> (Len(ut_dets) > 0)

\* a call with two detections, each matched by one of two tracks
C27_Witness ==
    /\ iters >= 2
    /\ Len(ut_dets) = 2
    /\ Len(visible) = 2
    /\ Cardinality(Matched) = 2
    /\ Len(tracks) = 2

\* ------------------------------------------------------------------------
\* Further properties of merge_detections (MergeSpec)
\* ------------------------------------------------------------------------
\* this step is one pass of the while loop
PassStep == m_passes' = m_passes + 1

\* C26 as stated: every pass that reports a merge returns fewer detections
\* than it was given, and for n input detections the loop runs at most n
\* passes.
C26_PassesAtMostN ==
    [][PassStep =>
          /\ m_changed' => Len(m_dets') < Len(m_dets)
          /\ m_passes' <= Len(m_input)]_vars

\* C26 amended: ... at most n passes, and one pass for the empty list.
C26_PassesAtMostNButOne ==
    [][PassStep =>
          /\ m_changed' => Len(m_dets') < Len(m_dets)
          /\ (~m_changed') => m_dets' = m_dets
          /\ m_passes' <= Max(Len(m_input), 1)]_vars

\* merge_detections has returned after as many passes as it was given
\* detections, three of them
C26_Witness ==
    /\ m_pc = "done"
    /\ Len(m_input) = 3
    /\ m_passes = 3
    /\ Len(m_dets) = 1

\* ------------------------------------------------------------------------
\* Further properties of the recording state machine (Spec)
\* ------------------------------------------------------------------------
\* no frame occurs twice in a sequence of sink writes
NoFrameTwice(file) ==
    \A k, l \in DOMAIN file : k # l => file[k].frame # file[l].frame

\* C28: every captured frame is written to the raw sink at most once and
\* to the annotated sink at most once, whatever the session.
C28_FramesWrittenOnce == NoFrameTwice(raw_file) /\ NoFrameTwice(trk_file)

\* C29: while Recording no track was seen later than the session's
\* last_seen; so the iteration that stops the session leaves no track, and
\* the first track created on an empty track set gets id 1.
C29_TracksGoneAtStop ==
    [][FrameStep =>
          /\ recording' => \A t \in Elems(tracks') : t.last <= last_seen'
          /\ it'.stop => tracks' = <<>>
          /\ (tracks = <<>> /\ Len(visible') > 0) => visible'[1].id = 1]_vars

\* the second session of the run has started on a track that has id 1
\* again
C29_Witness ==
    /\ it.kind = "frame"
    /\ it.start = "ok"
    /\ events_count = 2
    /\ Len(visible) = 1
    /\ visible[1].id = 1
    /\ 1 \in assigned

\* ------------------------------------------------------------------------
\* Liveness of the recording state machine (LiveSpec)
\* ------------------------------------------------------------------------
\* the session has ended and both sinks are released
SessionClosed ==
    /\ ~recording
    /\ raw_out = None
    /\ trk_out = None
    /\ open_writers = {}

C23_NoRequestDeleted == rs.pending > 0 => reset_flag

\* ------------------------------------------------------------------------
\* Segmentation (DetectSpec)
\* ------------------------------------------------------------------------
\* the box contains the block and reaches at most k pixels beyond it on
\* each side
GrownBy(box, block, k) ==
    /\ block[1] - k <= box[1] /\ box[1] <= block[1]
    /\ block[2] - k <= box[2] /\ box[2] <= block[2]
    /\ block[1] + block[3] <= box[1] + box[3]
    /\ box[1] + box[3] <= block[1] + block[3] + k
    /\ block[2] + block[4] <= box[2] + box[4]
    /\ box[2] + box[4] <= block[2] + block[4] + k

\* the first call has returned; it was given the uniform background 1000
\* and a plane that is 1000 outside the block
UniformCase ==
    /\ seg.pc = "call"
    /\ seg.calls = 1
    /\ seg.kind = "uniform"
    /\ seg.ambient = 1000

\* C21: given a uniform background of raw value 1000 and a thermal frame
\* that is 1000 everywhere except one rectangular block of value
\* v >= 1000 + THERMAL_DELTA_RAW and of area at least MIN_HOT_AREA,
\* detect_hot_objects reports exactly one detection, whose bounding box is
\* the block grown by at most the two 3x3 dilations.
C21_OneDetectionOnBlock ==
    (/\ UniformCase
     /\ seg.v >= 1000 + THERMAL_DELTA_RAW
     /\ seg.block[3] * seg.block[4] >= MIN_HOT_AREA)
        => /\ Len(seg.detections) = 1
           /\ GrownBy(seg.detections[1].bbox, seg.block, 2)

\* a call of DetectSpec
DetectStep == seg.pc = "call" /\ seg'.calls = seg.calls + 1

\* whether b lies between a and c
Between(a, b, c) == (a <= b /\ b <= c) \/ (c <= b /\ b <= a)

\* C22: detect_hot_objects returns a background of the same shape in which
\* every pixel classified hot (thermal - background > THERMAL_DELTA_RAW)
\* has exactly its previous value; only pixels classified cold are moved
\* toward the current thermal value.
C22_BackgroundMovesOnColdOnly ==
    [][DetectStep =>
        /\ DOMAIN seg'.background = DOMAIN seg.background
        /\ seg'.hot_mask =
              {p \in Grid : seg.thermal[p] * BgScale - seg.background[p]
                               > THERMAL_DELTA_RAW * BgScale}
        /\ \A p \in Grid :
              LET old == seg.background[p]
                  new == seg'.background[p]
                  th == seg.thermal[p] * BgScale
              IN IF p \in seg'.hot_mask
                 THEN new = old
                 ELSE /\ Between(old, new, th)
                      /\ old # th => (new # old /\ new # th)]_vars

\* the second call in a row has met hot pixels and has moved cold ones
C22_Witness ==
    /\ seg.pc = "call"
    /\ seg.calls = 2
    /\ seg.hot_mask # {}
    /\ \E p \in Grid \ seg.hot_mask : seg.background[p] # seg.previous[p]
    /\ \E p \in seg.hot_mask : seg.background[p] = seg.previous[p]

====
